---------------------------- MODULE Spec2Model ----------------------------
(***************************************************************************)
(* State-machine model of the eCorridor live client.                       *)
(*                                                                         *)
(*   src/app/page.tsx            operator dashboard (LiveTrackerDashboard) *)
(*   src/app/traveller/page.tsx  traveller view (TravellerView)            *)
(*                                                                         *)
(* Both pages run the same connectLoop; the dashboard feeds the tracker    *)
(* colour map, the match ledger and the camera registry, the traveller     *)
(* view feeds the camera registry and the alert level.  Execution is       *)
(* single-threaded: every action below is one run-to-completion step of a  *)
(* callback (the code between two awaits, a timer callback, a React        *)
(* render, a click).                                                       *)
(***************************************************************************)
EXTENDS Integers, Sequences, FiniteSets, TLC

(***************************************************************************)
(* Bounds of the model.                                                    *)
(***************************************************************************)
\* connect failures in a row that the model follows (the code has no limit)
MaxSleeps == 11
\* state updates that may be queued before React renders
MaxPending == 1
\* capacity of the ledger in the model; the code's MAX_MATCHES is 50 and
\* upsert only ever uses it as the argument of slice(0, MAX_MATCHES)
LedgerCapacity == 3
\* frames per camera that the model follows
MaxFrames == 5
\* frames of the watched camera while the user expands and collapses
MaxFocusFrames == 3
MaxDeliveries == 3

(***************************************************************************)
(* Program constants.                                                      *)
(***************************************************************************)
INITIAL_DELAY_MS == 1000
MAX_DELAY_MS == 30000
COLOR_TIMEOUT_MS == 5000
ALERT_TIMEOUT_MS == 5000

\* reconnectDelay is a JS double that takes the values 1000 * 1.5^k.  It is
\* held here in units of 1/256 ms, which keeps every value the code can
\* reach below the cap (k <= 8) and the first values above it integral.
DelayUnit == 2 ^ 8
INITIAL_DELAY == INITIAL_DELAY_MS * DelayUnit
MAX_DELAY == MAX_DELAY_MS * DelayUnit

\* Time advances in steps of one fifth of the colour timeout (1000 ms).
TimeStep == COLOR_TIMEOUT_MS \div 5

Min(a, b) == IF a < b THEN a ELSE b

(***************************************************************************)
(* Input domains.                                                          *)
(***************************************************************************)
Trackers == {7, 8}
\* the tracker whose face the frames of the model show
OneTracker == CHOOSE t \in Trackers : TRUE
\* colorCode values as they arrive on frames.color, before toLowerCase()
ColorCodes == {"RED", "Green"}
\* a frames.color message that carries no tracker_id (trackerId === undefined)
NoTracker == -1
\* Map.get / a ref that holds no setTimeout handle
NoHandle == 0
\* handles of the browser's timer table; the code holds at most one per key
Handles == 1 .. (2 * Cardinality(Trackers))

\* color values as they arrive on frames.alert; "" is a message without one
AlertCodes == {"RED", "red", "GREEN", ""}
Cameras == {"A", "B"}
\* the two pages, and the topics each of them subscribes to
Pages == {"dashboard", "traveller"}
Topics(p) ==
    IF p = "dashboard"
      THEN {"frames.color", "frames.matches", "frames.tracker"}
      ELSE {"frames.raw", "frames.alert"}

Persons == {"P1", "P2", "P3", "P4"}
\* What a frames.matches message carries besides person_id, and the wall
\* clock (toLocaleTimeString) read when its updater runs.  score is in
\* 1/10000: 7194 stands for 0.7194.
MatchSamples ==
    { [tracker_id |-> 7, score |-> 7194, face_crop |-> "jpegA", at |-> "10:15:01"],
      [tracker_id |-> 8, score |-> 8110, face_crop |-> "corrupt", at |-> "10:15:02"] }
MatchMessages ==
    { [person_id |-> p, tracker_id |-> m.tracker_id, score |-> m.score,
       face_crop |-> m.face_crop, at |-> m.at] : p \in Persons, m \in MatchSamples }

VARIABLES
    page,             \* which page is mounted in the tab
    ssFull,           \* sessionStorage has run out of quota: setItem throws
    \* ---- connectLoop (both pages) ----
    pc,               \* where connectLoop is suspended
    cancelled,        \* the effect's `cancelled` flag
    status,           \* last value given to setStatus
    reconnectDelay,   \* in units of 1/256 ms
    conn,             \* the connection nc: "none", "open" or "closed"
    sleepFor,         \* duration of the back-off sleep last started
    sleeps,           \* back-off sleeps started since the last successful connect
    snapshot,         \* the stores when a run of connect failures began (history)
    dead,             \* topics whose consumer ended with an exception on nc
    \* ---- tracker colours (dashboard) ----
    trackerColors,    \* committed React state: tracker_id -> colour
    colorQueue,       \* setTrackerColors updaters not yet rendered
    trackerColorsRef, \* trackerColorsRef.current
    colorTimeoutsRef, \* colorTimeoutsRef.current: tracker_id -> timer handle
    timers,           \* the browser's timer table: handle -> callback, ms left
    sinceRed,         \* ms since the last 'red' event of a tracker (history)
    fires,            \* timer callbacks run for a tracker since that event (history)
    reds,             \* 'red' events of a tracker in a row, up to 2 (history)
    \* ---- match ledger (dashboard) ----
    recentMatches,    \* committed React state
    matchQueue,       \* setRecentMatches updates not yet rendered
    recentMatchesRef, \* recentMatchesRef.current
    ssMatches,        \* sessionStorage item ecorridor_recent_matches
    lastOp,           \* what the last ledger update did (history)
    \* ---- camera registry and canvases (both pages) ----
    cameraIds,        \* committed React state
    camQueue,         \* setCameraIds updaters not yet rendered
    ssCameras,        \* sessionStorage item of the camera list
    canvasRefs,       \* canvasRefs.current: the cameras with a mounted canvas
    lastObserve,      \* whether the last observed camera was known (history)
    delivered,        \* camera_id -> frame_id of the last frame handled
    decoding,         \* images created by renderToCanvas whose onload is pending
    paints,           \* camera_id -> rasters drawn on its canvas (history)
    surface,          \* camera_id -> what the canvas element of its tile shows
    lastFrameRef,     \* lastFrameRef.current: camera_id -> the frame its src holds
    expandedCamera,   \* expandedCamera, and expandedCameraRef.current with it
    expSurface,       \* what the canvas of the expanded view shows
    newest,           \* camera_id -> highest frame drawn on its canvas (history)
    seenFocused,      \* last decodable frame handled for the focused camera (history)
    tagRead,          \* tag the last onload read for a face of OneTracker (history)
    \* ---- thumbnails of frames.matches (dashboard) ----
    compressing,      \* compressImageToBase64 calls whose Image has not loaded yet
    blobURLs,         \* object URLs created and not revoked
    taken,            \* messages the frames.matches consumers have taken (history)
    applied,          \* the order in which their updaters were queued (history)
    \* ---- the second LiveTrackerDashboard of src/app/page.tsx ----
    legacy,           \* its setupNats, connection, status, meta and ledger length
    \* ---- what img.onload draws (renderToCanvas, renderRawFrame) ----
    canvasSize,       \* width and height of the canvas an onload draws on
    lastRaster,       \* width and height of the image it drew last (history)
    display,          \* the face it drew last: inputs and what was drawn (history)
    \* ---- alert level (traveller view) ----
    alertColor,       \* last value given to setAlertColor
    alertTimeoutRef,  \* alertTimeoutRef.current: a timer handle or NoHandle
    sawRed,           \* a RED signal has arrived (history)
    sinceAlert,       \* ms since the most recent RED signal (history)
    nonRedSince,      \* a signal other than RED arrived after it (history)
    alertReds         \* RED signals in a row, up to 2 (history)

loopVars == <<pc, cancelled, status, reconnectDelay, conn, sleepFor, sleeps, snapshot, dead>>
tagVars == <<trackerColors, colorQueue, trackerColorsRef, colorTimeoutsRef>>
tagHist == <<sinceRed, fires, reds>>
ledgerVars == <<recentMatches, matchQueue, recentMatchesRef, ssMatches, lastOp>>
camVars == <<cameraIds, camQueue, ssCameras, canvasRefs, lastObserve>>
frameVars == <<delivered, decoding, paints, surface, lastFrameRef,
               expandedCamera, expSurface, newest, seenFocused, tagRead>>
alertVars == <<alertColor, alertTimeoutRef>>
drawVars == <<canvasSize, lastRaster, display>>
thumbRest == <<blobURLs, taken, applied>>
thumbVars == <<compressing, thumbRest>>
alertHist == <<sawRed, sinceAlert, nonRedSince, alertReds>>
vars == <<page, legacy, drawVars, ssFull, thumbVars, loopVars, timers, tagVars, tagHist, ledgerVars, camVars, frameVars,
          alertVars, alertHist>>

\* what the loop never touches
notLoop == <<page, legacy, drawVars, ssFull, thumbRest, timers, tagVars, tagHist, ledgerVars, camVars, frameVars,
            alertVars, alertHist>>
\* what the frames.color consumer and its timers never touch
notTags == <<page, legacy, drawVars, ssFull, thumbVars, loopVars, ledgerVars, camVars, frameVars, alertVars, alertHist>>
\* what the frames.matches consumer and the Clear button never touch
notLedger == <<page, legacy, drawVars, ssFull, thumbVars, loopVars, timers, tagVars, tagHist, camVars, frameVars,
              alertVars, alertHist>>
\* what the frame consumers never touch
notFrames == <<page, legacy, drawVars, ssFull, thumbVars, loopVars, timers, tagVars, tagHist, ledgerVars, alertVars, alertHist>>
\* what the frames.alert consumer and its timer never touch
notAlert == <<page, legacy, drawVars, ssFull, thumbVars, loopVars, tagVars, tagHist, ledgerVars, camVars, frameVars>>

\* a live consumer: its subscription iterates and `cancelled` is false
Consuming == conn = "open" /\ ~cancelled
\* the consumer of a topic of the mounted page that still iterates
Listening(topic) == Consuming /\ topic \in Topics(page) \ dead

(***************************************************************************)
(* Browser timers (setTimeout / clearTimeout)                              *)
(***************************************************************************)
\* A slot of the timer table: the callback it will run and the ms left.
FreeSlot == [kind |-> "free", tracker_id |-> NoTracker, left |-> 0]
Live(ts) == {h \in Handles : ts[h].kind # "free"}

\* setTimeout returns a handle that no live timer has.
NewHandle(ts) == CHOOSE h \in Handles \ Live(ts) : \A g \in Handles \ Live(ts) : h <= g
SetTimeout(ts, kind, trackerId, ms) ==
    [ts EXCEPT ![NewHandle(ts)] = [kind |-> kind, tracker_id |-> trackerId, left |-> ms]]

\* Variant: a clearTimeout that cancels nothing.
ClearTimeoutIgnored(ts, h) == ts

\* clearTimeout(handle); NoHandle and handles of finished timers are ignored.
ClearTimeout(ts, h) == IF h \in Handles THEN [ts EXCEPT ![h] = FreeSlot] ELSE ts

Due(ts) == {h \in Live(ts) : ts[h].left = 0}

(***************************************************************************)
(* Tracker colours: the frames.color consumer of the dashboard             *)
(***************************************************************************)
\* colorData.colorCode.toLowerCase()
ToLowerCase(code) ==
    CASE code = "RED" -> "red"
      [] code = "Green" -> "green"
      [] OTHER -> code

\* prev => { const n = new Map(prev); n.set(trackerId, color); return n; }
SetColor(prev, trackerId, color) == [prev EXCEPT ![trackerId] = color]

RECURSIVE ApplyColors(_, _)
ApplyColors(prev, queue) ==
    IF queue = <<>> THEN prev
    ELSE ApplyColors(SetColor(prev, Head(queue).tracker_id, Head(queue).color),
                     Tail(queue))

\* Variant: a 'red' event that leaves the pending timer running.
KeepPending(ts, ref, trackerId) == ts

\* if (colorTimeoutsRef.current.has(trackerId)) clearTimeout(...get(trackerId))
ClearPending(ts, ref, trackerId) == ClearTimeout(ts, ref[trackerId])

TagInit ==
    /\ trackerColors = [t \in Trackers |-> "none"]
    /\ colorQueue = <<>>
    /\ trackerColorsRef = [t \in Trackers |-> "none"]
    /\ colorTimeoutsRef = [t \in Trackers |-> NoHandle]
    /\ timers = [h \in Handles |-> FreeSlot]
    /\ sinceRed = [t \in Trackers |-> 0]
    /\ fires = [t \in Trackers |-> 0]
    /\ reds = [t \in Trackers |-> 0]

\* One message on frames.color.
ColorEvent(trackerId, code) ==
    /\ Listening("frames.color")
    /\ Len(colorQueue) < MaxPending
    /\ LET color == ToLowerCase(code) IN
       IF trackerId = NoTracker
         THEN UNCHANGED <<timers, tagVars, tagHist>>      \* continue
         ELSE /\ colorQueue' = Append(colorQueue,
                                 [tracker_id |-> trackerId, color |-> color])
              /\ IF color = "red"
                   THEN LET cleared == ClearPending(timers, colorTimeoutsRef, trackerId) IN
                        /\ Handles \ Live(cleared) # {}
                        /\ timers' = SetTimeout(cleared, "color", trackerId, COLOR_TIMEOUT_MS)
                        /\ colorTimeoutsRef' =
                             [colorTimeoutsRef EXCEPT ![trackerId] = NewHandle(cleared)]
                        /\ fires' = [fires EXCEPT ![trackerId] = 0]
                        /\ reds' = [reds EXCEPT ![trackerId] = Min(reds[trackerId] + 1, 2)]
                   ELSE /\ UNCHANGED <<colorTimeoutsRef, timers, fires>>
                        /\ reds' = [reds EXCEPT ![trackerId] = 0]
              /\ sinceRed' = [sinceRed EXCEPT ![trackerId] = 0]
              /\ UNCHANGED <<trackerColors, trackerColorsRef>>
    /\ UNCHANGED notTags

\* Variant: a callback that forgets the timer and leaves the tag as it is.
ColorTimerFireKeepsTag(h) ==
    /\ h \in Due(timers)
    /\ timers[h].kind = "color"
    /\ Len(colorQueue) < MaxPending
    /\ LET trackerId == timers[h].tracker_id IN
       /\ colorTimeoutsRef' = [colorTimeoutsRef EXCEPT ![trackerId] = NoHandle]
       /\ fires' = [fires EXCEPT ![trackerId] = Min(fires[trackerId] + 1, 2)]
    /\ timers' = [timers EXCEPT ![h] = FreeSlot]
    /\ UNCHANGED <<trackerColors, colorQueue, trackerColorsRef, sinceRed, reds>>
    /\ UNCHANGED notTags

\* The setTimeout callback created by a 'red' event runs.
ColorTimerFire(h) ==
    /\ h \in Due(timers)
    /\ timers[h].kind = "color"
    /\ Len(colorQueue) < MaxPending
    /\ LET trackerId == timers[h].tracker_id IN
       /\ colorQueue' = Append(colorQueue, [tracker_id |-> trackerId, color |-> "green"])
       /\ colorTimeoutsRef' = [colorTimeoutsRef EXCEPT ![trackerId] = NoHandle]
       /\ fires' = [fires EXCEPT ![trackerId] = Min(fires[trackerId] + 1, 2)]
    /\ timers' = [timers EXCEPT ![h] = FreeSlot]
    /\ UNCHANGED <<trackerColors, trackerColorsRef, sinceRed, reds>>
    /\ UNCHANGED notTags

\* Variant: a cleanup that sets the stop signal and leaves the timers running.
LeavePending(ts, ref) == ts
\* colorTimeoutsRef.current.forEach(t => clearTimeout(t))
ClearAllPending(ts, ref) ==
    [h \in Handles |-> IF \E t \in Trackers : ref[t] = h THEN FreeSlot ELSE ts[h]]

\* The effect's cleanup: the stop signal of the dashboard.
\* colorTimeoutsRef.current.forEach(t => clearTimeout(t)); .clear()
\* It runs when the component unmounts, and React drops the state updates
\* still queued for an unmounted component.
Cleanup ==
    /\ page = "dashboard"
    /\ ~cancelled
    /\ cancelled' = TRUE
    /\ timers' = ClearAllPending(timers, colorTimeoutsRef)
    /\ colorTimeoutsRef' = [t \in Trackers |-> NoHandle]
    /\ colorQueue' = <<>>
    /\ matchQueue' = <<>>
    /\ camQueue' = <<>>
    /\ UNCHANGED <<page, legacy, drawVars, ssFull, thumbVars, pc, status, reconnectDelay, conn, sleepFor, sleeps, snapshot, dead>>
    /\ UNCHANGED <<trackerColors, trackerColorsRef, tagHist>>
    /\ UNCHANGED <<recentMatches, recentMatchesRef, ssMatches, lastOp>>
    /\ UNCHANGED <<cameraIds, ssCameras, canvasRefs, lastObserve>>
    /\ UNCHANGED <<frameVars, alertVars, alertHist>>

(***************************************************************************)
(* sessionStorage and JSON                                                 *)
(***************************************************************************)
\* An item of sessionStorage: absent (getItem returns null) or a JSON text.
NoItem == [has |-> FALSE, raw |-> <<>>]

\* Variant: a serialisation that leaves the thumbnails out.
JSONStringifyNoImage(list) ==
    [i \in 1 .. Len(list) |->
        <<list[i].id, "", list[i].score, list[i].time, list[i].tracker_id>>]

\* JSON.stringify of a RecentMatch[]: one object per entry, its values in
\* the order the entry literal lists its keys.
JSONStringifyMatches(list) ==
    [i \in 1 .. Len(list) |->
        <<list[i].id, list[i].image, list[i].score, list[i].time, list[i].tracker_id>>]

\* JSON.parse(raw) as RecentMatch[]
JSONParseMatches(raw) ==
    [i \in 1 .. Len(raw) |->
        [id |-> raw[i][1], image |-> raw[i][2], score |-> raw[i][3],
         time |-> raw[i][4], tracker_id |-> raw[i][5]]]

\* try { sessionStorage.setItem(key, ...) } catch { /* quota */ }: what the
\* key holds afterwards
SaveToSession(old, new) == IF ssFull THEN old ELSE new

\* Variant: an updater that is abandoned when the write throws.
AfterSaveOrAbort(prev, next) == IF ssFull THEN prev ELSE next
\* saveToSession(key, next); return next;
AfterSave(prev, next) == next

\* the quota is used up (the thumbnails of the ledger are what fills it)
QuotaReached ==
    /\ ~ssFull
    /\ ssFull' = TRUE
    /\ UNCHANGED <<page, legacy, drawVars, thumbVars, loopVars, timers, tagVars, tagHist, ledgerVars, camVars,
                   frameVars, alertVars, alertHist>>

\* saveToSession(SS_MATCHES_KEY, value): setItem(key, JSON.stringify(value))
SaveMatches(value) == [has |-> TRUE, raw |-> JSONStringifyMatches(value)]

\* loadFromSession<RecentMatch[]>(SS_MATCHES_KEY, fallback)
LoadMatches(item, fallback) ==
    IF ~item.has THEN fallback ELSE JSONParseMatches(item.raw)

(***************************************************************************)
(* Match ledger: the frames.matches consumer of the dashboard              *)
(***************************************************************************)
MAX_MATCHES == LedgerCapacity

\* (matchData.score * 100).toFixed(1): a decimal string with one digit after
\* the point, held as <<integer part, tenths>>; x is the score in 1/10000.
ToFixed1(x) == LET t == (x + 5) \div 10 IN <<t \div 10, t % 10>>

\* compressImageToBase64: the data URL of the thumbnail, '' when the crop
\* does not decode (img.onerror)
Thumbnail(faceCrop) ==
    IF faceCrop = "jpegA" THEN "data:image/jpeg;base64,A96" ELSE ""

\* the entry literal of the updater
Entry(m, thumb) ==
    [id |-> m.person_id, image |-> thumb, score |-> ToFixed1(m.score),
     time |-> m.at, tracker_id |-> m.tracker_id]

\* prev.findIndex(p => p.id === id), counted from 1; 0 stands for JS's -1
FindIndex(prev, id) ==
    IF \E i \in 1 .. Len(prev) : prev[i].id = id
      THEN CHOOSE i \in 1 .. Len(prev) :
              /\ prev[i].id = id
              /\ \A j \in 1 .. (i - 1) : prev[j].id # id
      ELSE 0

\* prev.filter((_, i) => i !== existingIdx)
RemoveAt(prev, idx) ==
    [j \in 1 .. (Len(prev) - 1) |-> IF j < idx THEN prev[j] ELSE prev[j + 1]]

\* Variant: next.slice(-n), which keeps the last n entries.
SliceLast(list, n) == SubSeq(list, Len(list) - Min(n, Len(list)) + 1, Len(list))

\* next.slice(0, n)
Slice(list, n) == SubSeq(list, 1, Min(n, Len(list)))

\* Variant: an updater that prepends without looking for the id.
UpsertPrepend(prev, entry) == Slice(<<entry>> \o prev, MAX_MATCHES)

\* Variant: an updater that replaces a known entry where it stands.
UpsertInPlace(prev, entry) ==
    LET existingIdx == FindIndex(prev, entry.id) IN
    IF existingIdx # 0
      THEN [prev EXCEPT ![existingIdx] = entry]
      ELSE Slice(<<entry>> \o prev, MAX_MATCHES)

\* The updater given to setRecentMatches, without its saveToSession call.
Upsert(prev, entry) ==
    LET existingIdx == FindIndex(prev, entry.id)
        next == IF existingIdx # 0
                  THEN <<entry>> \o RemoveAt(prev, existingIdx)
                  ELSE <<entry>> \o prev
    IN  Slice(next, MAX_MATCHES)

\* What an upsert did, for the history variable lastOp.
UpsertKind(prev, entry) ==
    LET existingIdx == FindIndex(prev, entry.id) IN
    [kind |-> IF existingIdx # 0 THEN "replace"
              ELSE IF Len(prev) >= MAX_MATCHES THEN "evict" ELSE "insert",
     idx |-> existingIdx]

\* React runs the queued updates of recentMatches in order.  An updater
\* persists the list it returns; setRecentMatches([]) only replaces the state.
RECURSIVE ApplyMatches(_, _)
ApplyMatches(acc, queue) ==
    IF queue = <<>> THEN acc
    ELSE LET u == Head(queue) IN
         IF u.kind = "upsert"
           THEN LET next == Upsert(acc.list, u.entry) IN
                ApplyMatches([list |-> AfterSave(acc.list, next),
                              item |-> SaveToSession(acc.item, SaveMatches(next)),
                              op |-> UpsertKind(acc.list, u.entry)], Tail(queue))
           ELSE ApplyMatches([list |-> <<>>, item |-> acc.item,
                              op |-> [kind |-> "clear", idx |-> 0]], Tail(queue))

NoOp == [kind |-> "none", idx |-> 0]

\* useState(() => loadFromSession(SS_MATCHES_KEY, [])) and useRef(recentMatches)
LedgerInit(item) ==
    /\ ssMatches = item
    /\ recentMatches = LoadMatches(item, <<>>)
    /\ recentMatchesRef = LoadMatches(item, <<>>)
    /\ matchQueue = <<>>
    /\ lastOp = NoOp
    /\ compressing = {}
    /\ blobURLs = {}
    /\ taken = 0
    /\ applied = <<>>

\* One message on frames.matches: the consumer awaits the thumbnail and
\* calls setRecentMatches(updater).
MatchEvent(m) ==
    /\ Listening("frames.matches")
    /\ Len(matchQueue) < MaxPending
    /\ matchQueue' = Append(matchQueue,
           [kind |-> "upsert", entry |-> Entry(m, Thumbnail(m.face_crop))])
    /\ UNCHANGED <<recentMatches, recentMatchesRef, ssMatches, lastOp>>
    /\ UNCHANGED notLedger

\* The Clear button, rendered while the committed ledger is not empty:
\* setRecentMatches([]); sessionStorage.removeItem(SS_MATCHES_KEY).  The
\* click can come while updaters of the consumer are still queued.
ClearClick ==
    /\ page = "dashboard"
    /\ ~cancelled
    /\ recentMatches # <<>>
    /\ \A i \in 1 .. Len(matchQueue) : matchQueue[i].kind = "upsert"
    /\ matchQueue' = Append(matchQueue, [kind |-> "set", entry |-> <<>>])
    /\ ssMatches' = NoItem
    /\ UNCHANGED <<recentMatches, recentMatchesRef, lastOp>>
    /\ UNCHANGED notLedger

\* URL.createObjectURL(blob) and URL.revokeObjectURL(url); the URL of the
\* n-th call of compressImageToBase64 is named n
CreateObjectURL(urls, url) == urls \cup {url}
\* Variant: a handler that leaves its URL alone.
RevokeNothing(urls, url) == urls
RevokeObjectURL(urls, url) == urls \ {url}

\* The frames.matches consumer takes a message and suspends in
\* `await compressImageToBase64(...)`: the Blob, its object URL and the
\* Image exist, img.src is set.  The consumer of a connection takes its
\* next message only when this iteration has ended.
MatchTaken(m) ==
    /\ Listening("frames.matches")
    /\ taken < MaxDeliveries
    /\ \A r \in compressing : ~r.live
    /\ taken' = taken + 1
    /\ compressing' = compressing \cup {[seq |-> taken + 1, msg |-> m, live |-> TRUE]}
    /\ blobURLs' = CreateObjectURL(blobURLs, taken + 1)
    /\ UNCHANGED <<applied, ledgerVars>>
    /\ UNCHANGED <<page, legacy, drawVars, ssFull, loopVars, timers, tagVars, tagHist, camVars, frameVars,
                   alertVars, alertHist>>

\* The promise resolves with thumb and the consumer goes on after its await:
\* setRecentMatches(updater), with no look at `cancelled` or at the
\* connection.  An unmounted component takes no update; React may still
\* call the updater when it is given, on the state last rendered, and drop
\* the list it returns: the updater's saveToSession call then has run.
ThumbResolved(r, thumb) ==
    /\ Len(matchQueue) < MaxPending
    /\ compressing' = compressing \ {r}
    /\ applied' = Append(applied, r.seq)
    /\ matchQueue' = IF cancelled THEN matchQueue
                      ELSE Append(matchQueue,
                                  [kind |-> "upsert", entry |-> Entry(r.msg, thumb)])
    /\ \E called \in BOOLEAN :
          ssMatches' = IF cancelled /\ called
                         THEN SaveToSession(ssMatches,
                                 SaveMatches(Upsert(recentMatches, Entry(r.msg, thumb))))
                         ELSE ssMatches
    /\ UNCHANGED <<taken, recentMatches, recentMatchesRef, lastOp>>
    /\ UNCHANGED <<page, legacy, drawVars, ssFull, loopVars, timers, tagVars, tagHist, camVars, frameVars,
                   alertVars, alertHist>>

\* img.onload of compressImageToBase64: revoke the URL, then resolve with
\* the data URL of the scaled canvas, or with '' when getContext('2d') gives
\* null.
CompressLoad(r, ctx) ==
    /\ r \in compressing
    /\ r.msg.face_crop # "corrupt"
    /\ ctx \in BOOLEAN
    /\ blobURLs' = RevokeObjectURL(blobURLs, r.seq)
    /\ ThumbResolved(r, IF ctx THEN Thumbnail(r.msg.face_crop) ELSE "")

\* img.onerror of compressImageToBase64: revoke the URL, resolve with ''.
CompressError(r) ==
    /\ r \in compressing
    /\ r.msg.face_crop = "corrupt"
    /\ blobURLs' = RevokeObjectURL(blobURLs, r.seq)
    /\ ThumbResolved(r, "")

(***************************************************************************)
(* Camera registry and canvases: the frames.tracker consumer of the        *)
(* dashboard and the frames.raw consumer of the traveller view             *)
(***************************************************************************)
\* JSON.stringify of a string[]: every id becomes a quoted JSON string
JSONStringifyCameras(list) == [i \in 1 .. Len(list) |-> <<"quoted", list[i]>>]

\* JSON.parse(raw) as string[]
JSONParseCameras(raw) == [i \in 1 .. Len(raw) |-> raw[i][2]]

\* saveToSession(SS_CAMERAS_KEY, next)
SaveCameras(value) == [has |-> TRUE, raw |-> JSONStringifyCameras(value)]

\* loadFromSession<string[]>(SS_CAMERAS_KEY, fallback)
LoadCameras(item, fallback) ==
    IF ~item.has THEN fallback ELSE JSONParseCameras(item.raw)

\* prev.includes(camera_id)
Includes(prev, cameraId) == \E i \in 1 .. Len(prev) : prev[i] = cameraId

\* Variant: an updater that appends every id it is given.
ObserveAppend(prev, cameraId) == Append(prev, cameraId)

\* Variant: an updater that puts a new camera first.
ObservePrepend(prev, cameraId) ==
    IF \E i \in 1 .. Len(prev) : prev[i] = cameraId THEN prev ELSE <<cameraId>> \o prev

\* The updater given to setCameraIds, without its saveToSession call.
ObserveCamera(prev, cameraId) ==
    IF Includes(prev, cameraId) THEN prev ELSE Append(prev, cameraId)

\* React runs the queued updaters of cameraIds in order; an updater that
\* appends persists the list it returns.
RECURSIVE ApplyCameras(_, _)
ApplyCameras(acc, queue) ==
    IF queue = <<>> THEN acc
    ELSE LET next == ObserveCamera(acc.list, Head(queue)) IN
         ApplyCameras(
           IF next = acc.list
             THEN [acc EXCEPT !.seen = "known"]
             ELSE [list |-> AfterSave(acc.list, next),
                   item |-> SaveToSession(acc.item, SaveCameras(next)),
                   seen |-> "new"],
           Tail(queue))

\* the canvases of the grid: one <canvas ref={registerCanvas}> per camera id
Mounted(list) == {list[i] : i \in 1 .. Len(list)}

\* useState(() => loadFromSession(SS_CAMERAS_KEY, [])) and the first render
CamInit(item) ==
    /\ ssCameras = item
    /\ cameraIds = LoadCameras(item, <<>>)
    /\ camQueue = <<>>
    /\ canvasRefs = Mounted(LoadCameras(item, <<>>))
    /\ lastObserve = "none"

\* expandedCamera === null
NoCamera == "null"
\* data.image: a JPEG, bytes that are no image, or no image at all
Images == {"jpeg", "corrupt", "none"}
\* data.tracked_faces?.length on the dashboard; frames.raw carries no faces
FaceCounts == {0, 1}
NoFrame == [frame_id |-> 0, image |-> "none"]
\* a canvas element nothing has been drawn on; a raster and the boxes,
\* markers and labels drawn over it
Blank == [camera_id |-> NoCamera, frame_id |-> 0, boxes |-> 0]
Raster(cameraId, frameId, boxes) ==
    [camera_id |-> cameraId, frame_id |-> frameId, boxes |-> boxes]

FrameInit ==
    /\ delivered = [c \in Cameras |-> 0]
    /\ decoding = {}
    /\ paints = [c \in Cameras |-> 0]
    /\ surface = [c \in Cameras |-> Blank]
    /\ lastFrameRef = [c \in Cameras |-> NoFrame]
    /\ expandedCamera = NoCamera
    /\ expSurface = Blank
    /\ newest = [c \in Cameras |-> 0]
    /\ seenFocused = 0
    /\ tagRead = "unread"

\* One message on frames.tracker (frames.raw): setCameraIds(updater), then
\* renderToCanvas(data) (renderRawFrame(data)), which looks the canvas up,
\* creates the Image, stores its src in lastFrameRef and leaves the drawing
\* to img.onload.  `el` tells whether the canvas element the closure holds
\* is still the one of the camera's tile.
TrackerFrame(cameraId, frameId, image, faces) ==
    /\ Listening("frames.tracker") \/ Listening("frames.raw")
    /\ Len(camQueue) < MaxPending
    /\ frameId \in 1 .. MaxFrames
    /\ image \in Images
    /\ faces \in FaceCounts
    /\ page = "traveller" => faces = 0
    /\ camQueue' = Append(camQueue, cameraId)
    /\ delivered' = [delivered EXCEPT ![cameraId] = frameId]
    /\ IF cameraId \in canvasRefs /\ image # "none"
         THEN /\ lastFrameRef' = [lastFrameRef EXCEPT
                                    ![cameraId] = [frame_id |-> frameId, image |-> image]]
              /\ decoding' = decoding \cup
                    {[kind |-> "frame", camera_id |-> cameraId, frame_id |-> frameId,
                      image |-> image, faces |-> faces, el |-> "live"]}
         ELSE UNCHANGED <<lastFrameRef, decoding>>    \* if (!canvas || !data.image) return
    /\ seenFocused' = IF expandedCamera = cameraId /\ image = "jpeg"
                        THEN frameId ELSE seenFocused
    /\ tagRead' = tagRead
    /\ UNCHANGED <<cameraIds, ssCameras, canvasRefs, lastObserve, paints, surface,
                   expandedCamera, expSurface, newest>>
    /\ UNCHANGED notFrames

\* img.onload.  Of a frame: ctx.drawImage(img, 0, 0) on the tile's canvas,
\* then the copy of that canvas to the expanded canvas when the camera is
\* the expanded one, then the boxes, markers and labels on the tile's
\* canvas.  Of the repaint effect: the raster on the expanded canvas.
ImageLoad(image) ==
    /\ image \in decoding
    /\ image.image = "jpeg"
    /\ decoding' = decoding \ {image}
    /\ LET c == image.camera_id IN
       IF image.kind = "frame"
         THEN /\ IF image.el = "live"
                   THEN /\ surface' = [surface EXCEPT
                                         ![c] = Raster(c, image.frame_id, image.faces)]
                        /\ paints' = [paints EXCEPT ![c] = Min(paints[c] + 1, MaxFrames)]
                        /\ newest' = [newest EXCEPT
                                        ![c] = IF image.frame_id > newest[c]
                                                 THEN image.frame_id ELSE newest[c]]
                   ELSE UNCHANGED <<surface, paints, newest>>
              /\ expSurface' = IF expandedCamera = c
                                 THEN Raster(c, image.frame_id, 0)
                                 ELSE expSurface
         ELSE /\ expSurface' = IF image.el = "live"
                                 THEN Raster(c, image.frame_id, 0)
                                 ELSE expSurface
              /\ UNCHANGED <<surface, paints, newest>>
    \* trackerColorsRef.current.get(tracker_id), read for every tracked face
    /\ tagRead' = IF image.kind = "frame" /\ image.faces > 0
                    THEN trackerColorsRef[OneTracker] ELSE tagRead
    /\ UNCHANGED <<camVars, delivered, lastFrameRef, expandedCamera, seenFocused>>
    /\ UNCHANGED notFrames

\* Variant: a failed decode that wipes the canvases.
ImageErrorClears(image) ==
    /\ image \in decoding
    /\ image.image = "corrupt"
    /\ decoding' = decoding \ {image}
    /\ surface' = [surface EXCEPT ![image.camera_id] = Blank]
    /\ expSurface' = Blank
    /\ UNCHANGED <<camVars, delivered, paints, lastFrameRef, expandedCamera, newest,
                   seenFocused, tagRead>>
    /\ UNCHANGED notFrames

\* The image does not decode: the error event finds no handler (the code
\* sets img.onload only), and the Image is dropped.
ImageError(image) ==
    /\ image \in decoding
    /\ image.image = "corrupt"
    /\ decoding' = decoding \ {image}
    /\ UNCHANGED <<camVars, delivered, paints, surface, lastFrameRef, expandedCamera,
                   expSurface, newest, seenFocused, tagRead>>
    /\ UNCHANGED notFrames

(***************************************************************************)
(* What img.onload draws: the size of the canvas, and the box, marker and  *)
(* label of a tracked face                                                 *)
(***************************************************************************)
\* image and canvas sizes: a new <canvas> is 300 x 150
Widths == {300, 640}
Heights == {150, 360, 480}
Sizes == [width : Widths, height : Heights]
NewCanvas == [width |-> 300, height |-> 150]
NoRaster == [width |-> 0, height |-> 0]

\* what trackerColorsRef.current.get(tracker_id) can give: undefined
\* ("none") or a lower-case colour code
TagValues == {"none", "red", "green", "amber"}
\* person_id of a tracked face; NoPerson stands for a missing or empty id
NoPerson == "none"
PersonIds == {NoPerson, "P1", "P2"}
NoDisplay == [drawn |-> FALSE]

DrawInit ==
    /\ canvasSize = NewCanvas
    /\ lastRaster = NoRaster
    /\ display = NoDisplay

\* if (canvas.width !== img.width) { canvas.width = img.width;
\*                                   canvas.height = img.height; }
ResizeCanvas(canvas, img) ==
    IF canvas.width # img.width
      THEN [width |-> img.width, height |-> img.height]
      ELSE canvas

\* Variant: the person id decides the colour before the tag does.
BoxColorPersonFirst(trackerColor, person_id) ==
    IF person_id # NoPerson THEN "#1f8a70"
    ELSE IF trackerColor = "red" THEN "#ef4444"
    ELSE IF trackerColor = "green" THEN "#22c55e"
    ELSE "#f4d35e"

\* boxColor of the if / else if / else chain
BoxColor(trackerColor, person_id) ==
    IF trackerColor = "red" THEN "#ef4444"
    ELSE IF trackerColor = "green" THEN "#22c55e"
    ELSE IF person_id # NoPerson THEN "#1f8a70" ELSE "#f4d35e"

\* if (trackerColor) { ... fillStyle = trackerColor === 'red' ? red : green }
\* "none" when no marker is drawn
Marker(trackerColor) ==
    IF trackerColor = "none" THEN "none"
    ELSE IF trackerColor = "red" THEN "#ef4444" ELSE "#22c55e"

\* person_id ? `ID: ${person_id}` : 'Unknown'
Label(person_id) ==
    IF person_id # NoPerson THEN <<"ID: ", person_id>> ELSE <<"Unknown">>

\* img.onload up to ctx.drawImage(img, 0, 0)
OnloadResize(img) ==
    /\ img \in Sizes
    /\ canvasSize' = ResizeCanvas(canvasSize, img)
    /\ lastRaster' = img
    /\ UNCHANGED display
    /\ UNCHANGED <<page, legacy, ssFull, thumbVars, loopVars, timers, tagVars, tagHist,
                   ledgerVars, camVars, frameVars, alertVars, alertHist>>

\* one round of data.tracked_faces.forEach
DrawFace(trackerColor, person_id) ==
    /\ page = "dashboard"
    /\ trackerColor \in TagValues
    /\ person_id \in PersonIds
    /\ display' = [drawn |-> TRUE, trackerColor |-> trackerColor, person_id |-> person_id,
                   boxColor |-> BoxColor(trackerColor, person_id),
                   marker |-> Marker(trackerColor),
                   label |-> Label(person_id)]
    /\ UNCHANGED <<canvasSize, lastRaster>>
    /\ UNCHANGED <<page, legacy, ssFull, thumbVars, loopVars, timers, tagVars, tagHist,
                   ledgerVars, camVars, frameVars, alertVars, alertHist>>

(***************************************************************************)
(* Alert level: the frames.alert consumer of the traveller view            *)
(***************************************************************************)
\* alertData.color of a message that has none
NoColor == "undefined"

\* Variant: a message without a colour counts as an alert.
ToUpperCaseOrRed(code) ==
    CASE code = "red" -> "RED"
      [] code = "" -> "RED"
      [] OTHER -> code

\* alertData.color?.toUpperCase()
ToUpperCase(code) ==
    CASE code = "red" -> "RED"
      [] code = "" -> NoColor
      [] OTHER -> code

\* Variant: a signal that leaves the pending timer running.
KeepAlert(ts, ref) == ts

\* if (alertTimeoutRef.current) clearTimeout(alertTimeoutRef.current)
ClearAlert(ts, ref) == ClearTimeout(ts, ref)

AlertInit ==
    /\ alertColor = "green"
    /\ alertTimeoutRef = NoHandle
    /\ sawRed = FALSE
    /\ sinceAlert = 0
    /\ nonRedSince = FALSE
    /\ alertReds = 0

\* One message on frames.alert.
AlertEvent(code) ==
    /\ Listening("frames.alert")
    /\ IF ToUpperCase(code) = "RED"
         THEN LET cleared == ClearAlert(timers, alertTimeoutRef) IN
              /\ Handles \ Live(cleared) # {}
              /\ alertColor' = "red"
              /\ timers' = SetTimeout(cleared, "alert", NoTracker, ALERT_TIMEOUT_MS)
              /\ alertTimeoutRef' = NewHandle(cleared)
              /\ sawRed' = TRUE
              /\ sinceAlert' = 0
              /\ nonRedSince' = FALSE
              /\ alertReds' = Min(alertReds + 1, 2)
         ELSE /\ timers' = ClearAlert(timers, alertTimeoutRef)
              /\ alertTimeoutRef' = NoHandle
              /\ alertColor' = "green"
              /\ nonRedSince' = sawRed
              /\ alertReds' = 0
              /\ UNCHANGED <<sawRed, sinceAlert>>
    /\ UNCHANGED notAlert

\* Variant: a callback that leaves alertTimeoutRef.current as it is.
AlertTimerFireKeepsRef(h) ==
    /\ h \in Due(timers)
    /\ timers[h].kind = "alert"
    /\ alertColor' = "green"
    /\ timers' = [timers EXCEPT ![h] = FreeSlot]
    /\ UNCHANGED <<alertTimeoutRef, alertHist>>
    /\ UNCHANGED notAlert

\* The setTimeout callback created by a RED signal runs.
AlertTimerFire(h) ==
    /\ h \in Due(timers)
    /\ timers[h].kind = "alert"
    /\ alertColor' = "green"
    /\ alertTimeoutRef' = NoHandle
    /\ timers' = [timers EXCEPT ![h] = FreeSlot]
    /\ UNCHANGED alertHist
    /\ UNCHANGED notAlert

\* The effect's cleanup: the stop signal of the traveller view.
CleanupTraveller ==
    /\ page = "traveller"
    /\ ~cancelled
    /\ cancelled' = TRUE
    /\ timers' = ClearAlert(timers, alertTimeoutRef)
    /\ camQueue' = <<>>
    /\ UNCHANGED <<page, legacy, drawVars, ssFull, thumbVars, pc, status, reconnectDelay, conn, sleepFor, sleeps, snapshot, dead>>
    /\ UNCHANGED <<cameraIds, ssCameras, canvasRefs, lastObserve>>
    /\ UNCHANGED <<tagVars, tagHist, ledgerVars, frameVars, alertVars, alertHist>>

(***************************************************************************)
(* connectLoop                                                             *)
(***************************************************************************)
\* The stores that must survive reconnects, each with the value it holds
\* once the updates already queued for it have run: camera registry, match
\* ledger, tracker tags with their pending timers, alert level.
Stores ==
    <<ApplyCameras([list |-> cameraIds, item |-> ssCameras, seen |-> lastObserve],
                   camQueue).list,
      ApplyMatches([list |-> recentMatches, item |-> ssMatches, op |-> lastOp],
                   matchQueue).list,
      ApplyColors(trackerColors, colorQueue),
      colorTimeoutsRef, alertColor, alertTimeoutRef>>
\* no timer is pending
Quiet == Live(timers) = {}

\* Variant: a back-off that doubles.
NextDelayDoubling(d) == Min(d * 2, MAX_DELAY)

\* reconnectDelay = Math.min(reconnectDelay * 1.5, MAX_DELAY)
NextDelay(d) == Min((d * 3) \div 2, MAX_DELAY)

\* The state right after the effect has called connectLoop(): the first
\* iteration ran up to `await connect(...)`.
LoopInit ==
    /\ pc = "connecting"
    /\ cancelled = FALSE
    /\ status = "connecting"
    /\ reconnectDelay = INITIAL_DELAY
    /\ conn = "none"
    /\ sleepFor = 0
    /\ sleeps = 0
    /\ snapshot = <<>>
    /\ dead = {}

\* Variant: a successful connect that keeps the grown delay.
KeepDelay(d) == d
\* `reconnectDelay = 1000` after a successful connect: the reset.
ResetDelay(d) == INITIAL_DELAY

\* Variant: a reconnect that starts from an empty ledger.
ConnectOkFresh ==
    /\ pc = "connecting"
    /\ IF cancelled
         THEN /\ conn' = "closed"
              /\ pc' = "done"
              /\ UNCHANGED <<status, reconnectDelay, sleeps, dead>>
         ELSE /\ status' = "connected"
              /\ reconnectDelay' = INITIAL_DELAY
              /\ conn' = "open"
              /\ pc' = "waitClosed"
              /\ sleeps' = 0
              /\ dead' = {}
    /\ snapshot' = <<>>
    /\ recentMatches' = <<>>
    /\ recentMatchesRef' = <<>>
    /\ UNCHANGED <<cancelled, sleepFor, matchQueue, ssMatches, lastOp>>
    /\ UNCHANGED <<page, legacy, drawVars, ssFull, thumbVars, timers, tagVars, tagHist, camVars, frameVars, alertVars, alertHist>>

\* `await connect()` resolves.
ConnectOk ==
    /\ pc = "connecting"
    /\ IF cancelled
         THEN /\ conn' = "closed"                     \* nc.close(); return
              /\ pc' = "done"
              /\ UNCHANGED <<status, reconnectDelay, sleeps, dead>>
         ELSE /\ status' = "connected"
              /\ reconnectDelay' = ResetDelay(reconnectDelay)
              /\ conn' = "open"                        \* three subscriptions
              /\ pc' = "waitClosed"                    \* await nc.closed()
              /\ sleeps' = 0
              /\ dead' = {}                           \* fresh consumers
    /\ snapshot' = <<>>
    /\ UNCHANGED <<cancelled, sleepFor>>
    /\ UNCHANGED <<notLoop, compressing>>

\* The part of the loop body after the try/catch: the back-off sleep starts.
StartSleep ==
    /\ status' = "reconnecting"
    /\ pc' = "sleeping"
    /\ sleepFor' = reconnectDelay
    /\ sleeps' = sleeps + 1

\* Variant: a sleep that ignores the stop signal and goes round again.
SleepDoneRetries ==
    /\ pc = "sleeping"
    /\ reconnectDelay' = NextDelay(reconnectDelay)
    /\ pc' = "connecting"
    /\ status' = "connecting"
    /\ UNCHANGED <<cancelled, conn, sleepFor, sleeps, snapshot, dead>>
    /\ UNCHANGED <<notLoop, compressing>>

\* Variant: a connect failure that ends the loop for good.
ConnectFailFatal ==
    /\ pc = "connecting"
    /\ sleeps < MaxSleeps
    /\ status' = "error"
    /\ pc' = "done"
    /\ UNCHANGED <<cancelled, reconnectDelay, conn, sleepFor, sleeps, snapshot, dead>>
    /\ UNCHANGED <<notLoop, compressing>>

\* `await connect()` throws: the catch block.
ConnectFail ==
    /\ pc = "connecting"
    /\ sleeps < MaxSleeps
    /\ IF cancelled
         THEN pc' = "done" /\ UNCHANGED <<status, sleepFor, sleeps>>
         ELSE StartSleep
    /\ snapshot' = IF snapshot = <<>>
                     THEN <<[stores |-> Stores, quiet |-> Quiet]>>
                     ELSE snapshot
    /\ UNCHANGED <<cancelled, reconnectDelay, conn, dead>>
    /\ UNCHANGED <<notLoop, compressing>>

\* Variant: a loop that goes on to its back-off without waiting for
\* nc.closed(): the connection and its consumers stay as they are.
ConnLostNoWait ==
    /\ pc = "waitClosed"
    /\ IF cancelled
         THEN pc' = "done" /\ UNCHANGED <<status, sleepFor, sleeps>>
         ELSE StartSleep
    /\ UNCHANGED <<cancelled, conn, reconnectDelay, snapshot, dead>>
    /\ UNCHANGED <<notLoop, compressing>>

\* `await nc.closed()` resolves: the connection is gone.
ConnLost ==
    /\ pc = "waitClosed"
    /\ conn' = "closed"
    /\ IF cancelled
         THEN pc' = "done" /\ UNCHANGED <<status, sleepFor, sleeps>>
         ELSE StartSleep
    /\ UNCHANGED <<cancelled, reconnectDelay, snapshot, dead>>
    \* the subscriptions of nc end; a consumer suspended in an await of its
    \* loop body still runs that iteration to its end
    /\ compressing' = {[r EXCEPT !.live = FALSE] : r \in compressing}
    /\ UNCHANGED notLoop

\* The back-off timer fires: grow the delay and go round the while loop.
SleepDone ==
    /\ pc = "sleeping"
    /\ reconnectDelay' = NextDelay(reconnectDelay)
    /\ IF cancelled
         THEN pc' = "done" /\ UNCHANGED status
         ELSE pc' = "connecting" /\ status' = "connecting"
    /\ UNCHANGED <<cancelled, conn, sleepFor, sleeps, snapshot, dead>>
    /\ UNCHANGED <<notLoop, compressing>>

(***************************************************************************)
(* Messages that do not decode                                             *)
(***************************************************************************)
\* `decode(m.data)` throws on a payload that is not MessagePack.  The call
\* is inside the `for await` body of an async function with no try/catch:
\* the exception ends the iteration and rejects the function's promise,
\* which nobody awaits.  The subscription stays registered on nc, and
\* nothing reads it any more.
DecodeThrows(topic) ==
    /\ Listening(topic)
    /\ dead' = dead \cup {topic}
    /\ UNCHANGED <<pc, cancelled, status, reconnectDelay, conn, sleepFor, sleeps, snapshot>>
    /\ UNCHANGED <<notLoop, compressing>>

\* A frames.color message without colorCode: `colorData.colorCode.toLowerCase()`
\* is evaluated before the tracker_id test and throws a TypeError.
ColorCodeMissing ==
    /\ Listening("frames.color")
    /\ dead' = dead \cup {"frames.color"}
    /\ UNCHANGED <<pc, cancelled, status, reconnectDelay, conn, sleepFor, sleeps, snapshot>>
    /\ UNCHANGED <<notLoop, compressing>>

(***************************************************************************)
(* React and the clock                                                     *)
(***************************************************************************)
\* React renders: the queued updaters run in order (an updater's
\* saveToSession call runs with it), the effects copy the new state into
\* the refs, and the grid mounts one canvas per camera id.
Commit(expanded) ==
    /\ LET colors == ApplyColors(trackerColors, colorQueue)
           ledger == ApplyMatches([list |-> recentMatches, item |-> ssMatches,
                                   op |-> lastOp], matchQueue)
           cams == ApplyCameras([list |-> cameraIds, item |-> ssCameras,
                                 seen |-> lastObserve], camQueue)
       IN  /\ trackerColors' = colors
           /\ trackerColorsRef' = colors
           /\ recentMatches' = ledger.list
           /\ recentMatchesRef' = ledger.list
           /\ ssMatches' = ledger.item
           /\ lastOp' = ledger.op
           /\ cameraIds' = cams.list
           /\ ssCameras' = cams.item
           /\ lastObserve' = cams.seen
           \* cameraIds.length === 0 ? placeholder : expandedCamera ? one
           \* expanded canvas : the grid
           /\ canvasRefs' = IF expanded = NoCamera THEN Mounted(cams.list) ELSE {}
    /\ colorQueue' = <<>>
    /\ matchQueue' = <<>>
    /\ camQueue' = <<>>
    /\ UNCHANGED <<page, legacy, drawVars, ssFull, thumbVars, loopVars, timers, colorTimeoutsRef, tagHist,
                   alertVars, alertHist>>

Render ==
    /\ ~cancelled
    /\ colorQueue # <<>> \/ matchQueue # <<>> \/ camQueue # <<>>
    /\ Commit(expandedCamera)
    /\ UNCHANGED frameVars

\* A click on a camera tile of the grid, or on the button of another camera
\* in the expanded view: setExpandedCamera(c), and the render that follows
\* the click.  The expanded view replaces the grid, so every tile's canvas
\* leaves the document and registerCanvas(id, null) empties canvasRefs;
\* the images still decoding keep the element they were created for.  The
\* repaint effect then starts an Image from lastFrameRef for the expanded
\* canvas.
FocusClick(c) ==
    /\ ~cancelled
    /\ c \in Mounted(cameraIds)
    /\ c # expandedCamera
    /\ (page = "traveller" /\ expandedCamera = NoCamera) => Len(cameraIds) > 1
    /\ Commit(c)
    /\ expandedCamera' = c
    /\ expSurface' = IF expandedCamera = NoCamera THEN Blank ELSE expSurface
    /\ decoding' = IF lastFrameRef[c] = NoFrame
                     THEN decoding
                     ELSE decoding \cup
                            {[kind |-> "repaint", camera_id |-> c,
                              frame_id |-> lastFrameRef[c].frame_id,
                              image |-> lastFrameRef[c].image, faces |-> 0,
                              el |-> "live"]}
    /\ seenFocused' = 0
    /\ UNCHANGED <<delivered, paints, surface, lastFrameRef, newest, tagRead>>

\* "Show All", "Collapse" or the Escape key: setExpandedCamera(null) and the
\* render that follows.  The grid is mounted again with new canvas
\* elements, and the expanded canvas leaves the document.
Unfocus ==
    /\ ~cancelled
    /\ expandedCamera # NoCamera
    /\ Commit(NoCamera)
    /\ expandedCamera' = NoCamera
    /\ expSurface' = Blank
    /\ surface' = [c \in Cameras |-> Blank]
    /\ newest' = [c \in Cameras |-> 0]
    /\ decoding' = {[image EXCEPT !.el = "old"] : image \in decoding}
    /\ seenFocused' = 0
    /\ UNCHANGED <<delivered, paints, lastFrameRef, tagRead>>

\* a history clock that still has to advance
ClockRuns ==
    \/ \E t \in Trackers : reds[t] > 0 /\ sinceRed[t] <= COLOR_TIMEOUT_MS
    \/ sawRed /\ sinceAlert <= ALERT_TIMEOUT_MS

\* TimeStep ms pass.  Callbacks that are due run first: a timer that has
\* expired fires, and a pending render commits, before time moves on.
Tick ==
    /\ colorQueue = <<>> /\ matchQueue = <<>> /\ camQueue = <<>>
    /\ Due(timers) = {}
    /\ Live(timers) # {} \/ ClockRuns
    /\ timers' = [h \in Handles |->
          IF timers[h].kind = "free" THEN timers[h]
          ELSE [timers[h] EXCEPT !.left = timers[h].left - TimeStep]]
    /\ sinceRed' = [t \in Trackers |->
          IF reds[t] > 0
            THEN Min(sinceRed[t] + TimeStep, COLOR_TIMEOUT_MS + TimeStep)
            ELSE sinceRed[t]]
    /\ sinceAlert' = IF sawRed
                       THEN Min(sinceAlert + TimeStep, ALERT_TIMEOUT_MS + TimeStep)
                       ELSE sinceAlert
    /\ UNCHANGED <<page, legacy, drawVars, ssFull, thumbVars, loopVars, tagVars, fires, reds, ledgerVars, camVars,
                   frameVars, alertVars, sawRed, nonRedSince, alertReds>>

(***************************************************************************)
(* The second LiveTrackerDashboard of src/app/page.tsx (line 749): one     *)
(* call of setupNats per mount, no reconnect loop                          *)
(***************************************************************************)
notLegacy == <<page, drawVars, ssFull, thumbVars, loopVars, timers, tagVars, tagHist, ledgerVars,
               camVars, frameVars, alertVars, alertHist>>

\* useState('connecting'), useState({frame_id: 0, ...}), useState([]), let nc
LegacyInit ==
    legacy = [pc |-> "connecting", status |-> "connecting", nc |-> "none",
              matchSub |-> FALSE, frame_id |-> 0, matches |-> 0, unmounted |-> FALSE]

\* setStatus of a mounted component; an unmounted one takes no update
SetStatus(l, value) == IF l.unmounted THEN l.status ELSE value

\* `nc = await connect(...)` resolves: setStatus('connected'), both
\* subscriptions start.  A cleanup that ran before found nc undefined.
SetupConnected ==
    /\ legacy.pc = "connecting"
    /\ legacy' = [legacy EXCEPT !.pc = "consuming", !.nc = "open", !.matchSub = TRUE,
                                !.status = SetStatus(legacy, "connected")]
    /\ UNCHANGED notLegacy

\* `await connect(...)` rejects: the catch block sets status 'error' and
\* setupNats returns.
SetupConnectFails ==
    /\ legacy.pc = "connecting"
    /\ legacy' = [legacy EXCEPT !.pc = "done", !.status = SetStatus(legacy, "error")]
    /\ UNCHANGED notLegacy

\* One message on frames.tracker: setMeta, renderToCanvas.
SetupFrame ==
    /\ legacy.pc = "consuming"
    /\ legacy.nc = "open"
    /\ legacy.frame_id < MaxFrames
    /\ legacy' = [legacy EXCEPT !.frame_id = legacy.frame_id + 1]
    /\ UNCHANGED notLegacy

\* One message on frames.matches: [entry, ...prev].slice(0, 10)
SetupMatch ==
    /\ legacy.matchSub
    /\ legacy.nc = "open"
    /\ legacy.matches < MaxDeliveries
    /\ legacy' = [legacy EXCEPT !.matches = Min(legacy.matches + 1, 10)]
    /\ UNCHANGED notLegacy

\* The body of the frames.tracker loop throws (decode of a malformed
\* message), or its iterator does: the catch block sets status 'error' and
\* setupNats returns; the connection and the frames.matches consumer stay.
SetupStreamError ==
    /\ legacy.pc = "consuming"
    /\ legacy.nc = "open"
    /\ legacy' = [legacy EXCEPT !.pc = "done", !.status = SetStatus(legacy, "error")]
    /\ UNCHANGED notLegacy

\* The connection closes for good (the client has given up, or the server
\* has closed it): both iterators end, with or without an error.
SetupClosed(err) ==
    /\ legacy.nc = "open"
    /\ ~legacy.unmounted
    /\ err \in BOOLEAN
    /\ legacy' = [legacy EXCEPT
                    !.nc = "closed", !.matchSub = FALSE,
                    !.pc = IF legacy.pc = "consuming" THEN "done" ELSE legacy.pc,
                    !.status = IF legacy.pc = "consuming" /\ err
                                 THEN "error" ELSE legacy.status]
    /\ UNCHANGED notLegacy

\* The effect's cleanup: if (nc) nc.close()
SetupCleanup ==
    /\ ~legacy.unmounted
    /\ legacy' = [legacy EXCEPT
                    !.unmounted = TRUE,
                    !.nc = IF legacy.nc = "open" THEN "closed" ELSE legacy.nc,
                    !.matchSub = IF legacy.nc = "open" THEN FALSE ELSE legacy.matchSub,
                    !.pc = IF legacy.nc = "open" /\ legacy.pc = "consuming"
                             THEN "done" ELSE legacy.pc]
    /\ UNCHANGED notLegacy

\* The page is reloaded in the same tab: the beforeunload listener flushes
\* recentMatchesRef.current (the listener is removed by its effect's
\* cleanup), the page state is lost, and the component mounts again from
\* sessionStorage.
ColdStart ==
    LET item == IF cancelled THEN ssMatches
                ELSE SaveToSession(ssMatches, SaveMatches(recentMatchesRef)) IN
    /\ pc' = "connecting"
    /\ cancelled' = FALSE
    /\ status' = "connecting"
    /\ reconnectDelay' = INITIAL_DELAY
    /\ conn' = "none"
    /\ sleepFor' = 0
    /\ sleeps' = 0
    /\ snapshot' = <<>>
    /\ dead' = {}
    /\ trackerColors' = [t \in Trackers |-> "none"]
    /\ colorQueue' = <<>>
    /\ trackerColorsRef' = [t \in Trackers |-> "none"]
    /\ colorTimeoutsRef' = [t \in Trackers |-> NoHandle]
    /\ timers' = [h \in Handles |-> FreeSlot]
    /\ sinceRed' = [t \in Trackers |-> 0]
    /\ fires' = [t \in Trackers |-> 0]
    /\ reds' = [t \in Trackers |-> 0]
    /\ ssMatches' = item
    /\ recentMatches' = LoadMatches(item, <<>>)
    /\ recentMatchesRef' = LoadMatches(item, <<>>)
    /\ matchQueue' = <<>>
    /\ lastOp' = [kind |-> "rehydrate", idx |-> 0]
    /\ cameraIds' = LoadCameras(ssCameras, <<>>)
    /\ camQueue' = <<>>
    /\ canvasRefs' = Mounted(LoadCameras(ssCameras, <<>>))
    /\ lastObserve' = "none"
    /\ delivered' = [c \in Cameras |-> 0]
    /\ decoding' = {}
    /\ paints' = [c \in Cameras |-> 0]
    /\ surface' = [c \in Cameras |-> Blank]
    /\ lastFrameRef' = [c \in Cameras |-> NoFrame]
    /\ expandedCamera' = NoCamera
    /\ expSurface' = Blank
    /\ newest' = [c \in Cameras |-> 0]
    /\ seenFocused' = 0
    /\ tagRead' = "unread"
    /\ alertColor' = "green"
    /\ alertTimeoutRef' = NoHandle
    /\ sawRed' = FALSE
    /\ sinceAlert' = 0
    /\ nonRedSince' = FALSE
    /\ alertReds' = 0
    /\ compressing' = {}
    /\ blobURLs' = {}
    /\ taken' = 0
    /\ applied' = <<>>
    /\ canvasSize' = NewCanvas
    /\ lastRaster' = NoRaster
    /\ display' = NoDisplay
    /\ UNCHANGED <<page, legacy, ssFull, ssCameras>>

(***************************************************************************)
(* Specifications                                                          *)
(***************************************************************************)
\* Ledgers and camera lists that an earlier page of the session may have
\* left in sessionStorage.
StoredLedgers ==
    LET a == Entry(CHOOSE m \in MatchMessages :
                      m.person_id = "P1" /\ m.face_crop = "jpegA", Thumbnail("jpegA"))
        b == Entry(CHOOSE m \in MatchMessages :
                      m.person_id = "P2" /\ m.face_crop = "corrupt", Thumbnail("corrupt"))
    IN  {NoItem, SaveMatches(<<b, a>>)}
StoredCameras == {NoItem, SaveCameras(<<"B", "A">>)}

\* a page mounted in a session that holds nothing yet
FreshInit ==
    /\ page \in Pages
    /\ ssFull = FALSE
    /\ LoopInit /\ TagInit /\ LedgerInit(NoItem)
    /\ CamInit(NoItem) /\ FrameInit /\ AlertInit /\ LegacyInit /\ DrawInit

\* a fresh tab showing the dashboard (src/app/page.tsx) or the traveller view
DashboardInit == FreshInit /\ page = "dashboard"
TravellerInit == FreshInit /\ page = "traveller"

\* a page mounted in a session that may hold a ledger and a camera list
Init ==
    /\ page \in Pages
    /\ ssFull = FALSE
    /\ LoopInit /\ TagInit /\ FrameInit /\ AlertInit /\ LegacyInit /\ DrawInit
    /\ \E item \in StoredLedgers : LedgerInit(item)
    /\ \E item \in StoredCameras : CamInit(item)

\* The dashboard with one tracker: the loop, the tags and their timers.
Next ==
    \/ ConnectOk
    \/ ConnectFail
    \/ ConnLost
    \/ SleepDone
    \/ Cleanup
    \/ CleanupTraveller
    \/ \E t \in {OneTracker, NoTracker}, code \in ColorCodes : ColorEvent(t, code)
    \/ \E h \in Handles : ColorTimerFire(h)
    \/ Render
    \/ Tick
Spec == Init /\ [][Next]_vars

\* The loop alone; the back-off sleep is a timer, which always fires.
NextLoop ==
    \/ ConnectOk
    \/ ConnectFail
    \/ ConnLost
    \/ SleepDone
    \/ Cleanup
    \/ CleanupTraveller
SpecLoop == Init /\ [][NextLoop]_vars /\ WF_vars(SleepDone)

\* The tag store of the dashboard with all its trackers.
NextTags ==
    \/ ConnectOk
    \/ ConnLost
    \/ SleepDone
    \/ Cleanup
    \/ \E t \in Trackers \cup {NoTracker}, code \in ColorCodes : ColorEvent(t, code)
    \/ \E h \in Handles : ColorTimerFire(h)
    \/ Render
    \/ Tick
SpecTags == DashboardInit /\ [][NextTags]_vars

\* The match ledger of the dashboard with the Clear button and page reloads.
NextLedger ==
    \/ ConnectOk
    \/ \E m \in MatchMessages : MatchEvent(m)
    \/ Render
    \/ ClearClick
    \/ ColdStart
SpecLedger == DashboardInit /\ [][NextLedger]_vars

\* The camera registry with disconnects, reconnects and page reloads; each
\* camera sends its frames in order.
NextCameras ==
    \/ ConnectOk
    \/ ConnLost
    \/ SleepDone
    \/ \E c \in Cameras : TrackerFrame(c, delivered[c] + 1, "jpeg", 0)
    \/ Render
    \/ ColdStart
SpecCameras == FreshInit /\ [][NextCameras]_vars

\* The canvases of a fresh session: every camera is unknown when its first
\* frame arrives, and each camera sends frames 1 .. MaxFrames in order.
NextFrames ==
    \/ ConnectOk
    \/ \E c \in Cameras : TrackerFrame(c, delivered[c] + 1, "jpeg", 0)
    \/ \E image \in decoding : ImageLoad(image)
    \/ Render
SpecFrames == FreshInit /\ [][NextFrames]_vars

\* The alert level of the traveller view.
NextAlert ==
    \/ ConnectOk
    \/ ConnLost
    \/ SleepDone
    \/ \E code \in AlertCodes : AlertEvent(code)
    \/ \E h \in Handles : AlertTimerFire(h)
    \/ Tick
    \/ CleanupTraveller
SpecAlert == TravellerInit /\ [][NextAlert]_vars

\* The stop signal on either page, with the timers of both: one tracker on
\* the dashboard, the alert level on the traveller view.
NextStop ==
    \/ ConnectOk
    \/ ConnLost
    \/ SleepDone
    \/ \E code \in ColorCodes : ColorEvent(OneTracker, code)
    \/ \E h \in Handles : ColorTimerFire(h)
    \/ \E code \in AlertCodes : AlertEvent(code)
    \/ \E h \in Handles : AlertTimerFire(h)
    \/ Render
    \/ Tick
    \/ Cleanup
    \/ CleanupTraveller
SpecStop == FreshInit /\ [][NextStop]_vars

\* Either page with well-formed and malformed messages on its topics.
NextMalformed ==
    \/ ConnectOk
    \/ ConnLost
    \/ SleepDone
    \/ \E topic \in Topics(page) : DecodeThrows(topic)
    \/ ColorCodeMissing
    \/ \E code \in ColorCodes : ColorEvent(OneTracker, code)
    \/ \E h \in Handles : ColorTimerFire(h)
    \/ \E code \in AlertCodes : AlertEvent(code)
    \/ \E h \in Handles : AlertTimerFire(h)
    \/ Render
    \/ Tick
SpecMalformed == FreshInit /\ [][NextMalformed]_vars

\* The two persisted stores of the dashboard in a session whose storage
\* runs out of quota at some point.
StorageMatches ==
    {m \in MatchMessages : m.person_id \in {"P1", "P2"} /\ m.face_crop = "jpegA"}
NextStorage ==
    \/ ConnectOk
    \/ \E m \in StorageMatches : MatchEvent(m)
    \/ \E c \in Cameras : TrackerFrame(c, 1, "jpeg", 0)
    \/ Render
    \/ QuotaReached
SpecStorage == DashboardInit /\ [][NextStorage]_vars

\* A session that already knows both cameras, so that their tiles are
\* mounted from the start; one of them sends frames, some of which do not
\* decode, while the user expands, switches and collapses cameras.
KnownInit ==
    /\ page \in Pages
    /\ ssFull = FALSE
    /\ LoopInit /\ TagInit /\ LedgerInit(NoItem)
    /\ CamInit(SaveCameras(<<"B", "A">>)) /\ FrameInit /\ AlertInit /\ LegacyInit /\ DrawInit
Watched == "A"
NextFocus ==
    \/ ConnectOk
    \/ \E image \in Images, faces \in FaceCounts :
          /\ delivered[Watched] < MaxFocusFrames
          /\ TrackerFrame(Watched, delivered[Watched] + 1, image, faces)
    \/ \E image \in decoding : ImageLoad(image)
    \/ \E image \in decoding : ImageError(image)
    \/ Render
    \/ \E c \in Cameras : FocusClick(c)
    \/ Unfocus
SpecFocus == KnownInit /\ [][NextFocus]_vars

\* The compositor of the dashboard next to the tag store: one camera
\* sends frames that show a face of OneTracker while colour events arrive
\* for that tracker.
CompositorInit == KnownInit /\ page = "dashboard"
NextCompositor ==
    \/ ConnectOk
    \/ \E code \in ColorCodes : ColorEvent(OneTracker, code)
    \/ \E h \in Handles : ColorTimerFire(h)
    \/ /\ delivered[Watched] < MaxFocusFrames
       /\ TrackerFrame(Watched, delivered[Watched] + 1, "jpeg", 1)
    \/ \E image \in decoding : ImageLoad(image)
    \/ Render
    \/ Tick
SpecCompositor == CompositorInit /\ [][NextCompositor]_vars

\* The frames.matches consumers of the dashboard with their thumbnails in
\* flight, across disconnects and reconnects.
ThumbMatches == {m \in MatchMessages : m.person_id \in {"P1", "P2"}}
NextMatches ==
    \/ ConnectOk
    \/ ConnLost
    \/ SleepDone
    \/ \E m \in ThumbMatches : MatchTaken(m)
    \/ \E r \in compressing, ctx \in BOOLEAN : CompressLoad(r, ctx)
    \/ \E r \in compressing : CompressError(r)
    \/ Render
    \/ Cleanup
SpecMatches == DashboardInit /\ [][NextMatches]_vars

\* The second LiveTrackerDashboard alone.
NextSetup ==
    \/ SetupConnected
    \/ SetupConnectFails
    \/ SetupFrame
    \/ SetupMatch
    \/ SetupStreamError
    \/ \E err \in BOOLEAN : SetupClosed(err)
    \/ SetupCleanup
SpecSetup == DashboardInit /\ [][NextSetup]_vars

\* The drawing of one canvas of the dashboard: images of any size load one
\* after another, and faces with any tag and person id are drawn.
NextDraw ==
    \/ \E img \in Sizes : OnloadResize(img)
    \/ \E trackerColor \in TagValues, person_id \in PersonIds :
          DrawFace(trackerColor, person_id)
SpecDraw == DashboardInit /\ [][NextDraw]_vars

\* The frames.color and the frames.matches consumer side by side: what
\* one message of each does to the variables the two consumers write.
Here ==
    [colorQueue |-> colorQueue, timers |-> timers,
     colorTimeoutsRef |-> colorTimeoutsRef, matchQueue |-> matchQueue]

\* the body of the frames.color loop for a message with a tracker_id
ColorStep(st, trackerId, code) ==
    LET color == ToLowerCase(code)
        cleared == ClearPending(st.timers, st.colorTimeoutsRef, trackerId)
    IN  [st EXCEPT
           !.colorQueue = Append(@, [tracker_id |-> trackerId, color |-> color]),
           !.timers = IF color = "red"
                        THEN SetTimeout(cleared, "color", trackerId, COLOR_TIMEOUT_MS)
                        ELSE @,
           !.colorTimeoutsRef = IF color = "red"
                                  THEN [@ EXCEPT ![trackerId] = NewHandle(cleared)]
                                  ELSE @]

\* Variant: a frames.matches consumer that also tags the tracker of the match.
MatchStepTagsTracker(st, m) ==
    [st EXCEPT
       !.matchQueue = Append(@, [kind |-> "upsert",
                                 entry |-> Entry(m, Thumbnail(m.face_crop))]),
       !.colorQueue = Append(@, [tracker_id |-> m.tracker_id, color |-> "green"])]

\* the body of the frames.matches loop
MatchStep(st, m) ==
    [st EXCEPT
       !.matchQueue = Append(@, [kind |-> "upsert",
                                 entry |-> Entry(m, Thumbnail(m.face_crop))])]

\* the stores once React has rendered what is queued in st
Outcome(st) ==
    <<ApplyMatches([list |-> recentMatches, item |-> ssMatches, op |-> lastOp],
                   st.matchQueue).list,
      ApplyColors(trackerColors, st.colorQueue),
      st.timers, st.colorTimeoutsRef>>

NextOrder ==
    \/ ConnectOk
    \/ \E code \in ColorCodes : ColorEvent(OneTracker, code)
    \/ \E h \in Handles : ColorTimerFire(h)
    \/ \E m \in ThumbMatches : MatchEvent(m)
    \/ Render
    \/ Tick
SpecOrder == DashboardInit /\ [][NextOrder]_vars

(***************************************************************************)
(* Properties                                                              *)
(***************************************************************************)

\* C1 -- Ledger invariant: in every state reached from an empty ledger
\* through any sequence of matches events, Clear clicks and page reloads,
\* the ledger holds at most MAX_MATCHES entries and no two of its entries
\* share a person id.
C1_LedgerBoundedUnique ==
    /\ Len(recentMatches) <= MAX_MATCHES
    /\ \A i, j \in 1 .. Len(recentMatches) :
          recentMatches[i].id = recentMatches[j].id => i = j
\* a full ledger in which the last event replaced the entry of a known person
C1_FullLedgerReplaced ==
    /\ Len(recentMatches) = MAX_MATCHES
    /\ lastOp.kind = "replace"
    /\ C1_LedgerBoundedUnique

\* what an upsert of entry e must make of the ledger prev
Upserted(prev, e, next) ==
    LET known == \E k \in 1 .. Len(prev) : prev[k].id = e.id
        others == SelectSeq(prev, LAMBDA x : x.id # e.id)
    IN  /\ next # <<>>
        /\ next[1] = e
        /\ known => (Len(next) = Len(prev) /\ Tail(next) = others)
        /\ ~known => /\ Len(next) = Min(Len(prev) + 1, MAX_MATCHES)
                     /\ Tail(next) = SubSeq(prev, 1, Len(next) - 1)

\* C2 -- Upsert: for every reachable ledger and every entry, upserting an
\* id that the ledger holds puts the new content at the front, keeps the
\* length, and leaves the other entries in their order; upserting an
\* unknown id puts the new entry at the front of the old entries.  Every
\* render that runs one queued upsert changes the ledger in exactly this way.
C2_UpsertMovesToFront ==
    /\ [](\A m \in MatchMessages :
            LET e == Entry(m, Thumbnail(m.face_crop)) IN
            Upserted(recentMatches, e, Upsert(recentMatches, e)))
    /\ [][(Render /\ Len(matchQueue) = 1 /\ matchQueue[1].kind = "upsert")
            => Upserted(recentMatches, matchQueue[1].entry, recentMatches')]_vars
\* the last event replaced the entry that stood last in a full ledger
C2_ReplacedLastEntry ==
    /\ lastOp.kind = "replace"
    /\ lastOp.idx = MAX_MATCHES
    /\ Len(recentMatches) = MAX_MATCHES

\* C7 -- Persistence round trip: whenever a render runs an upsert last, the
\* item it leaves in sessionStorage parses back to exactly the ledger it
\* produced (same entries, same fields, same order), and a page reload
\* rehydrates exactly the ledger that was flushed.
C7_RoundTrip ==
    /\ [][(Render /\ matchQueue # <<>> /\ matchQueue[Len(matchQueue)].kind = "upsert")
            => LoadMatches(ssMatches', <<>>) = recentMatches']_vars
    /\ [][(ColdStart /\ ~cancelled) => recentMatches' = recentMatchesRef]_vars
\* a reload that rehydrated a ledger of several entries, thumbnails included
C7_RehydratedLedger ==
    /\ lastOp.kind = "rehydrate"
    /\ Len(recentMatches) >= 2
    /\ \E i \in 1 .. Len(recentMatches) : recentMatches[i].image # ""
    /\ LoadMatches(ssMatches, <<>>) = recentMatches

\* C3 -- Timer coalescing: while the dashboard is mounted, if the last
\* events of a tracker were n >= 1 'red' events, its tag (the state the
\* next render commits) is red and no timer callback has run for it until
\* COLOR_TIMEOUT_MS after the last of them, and after that time exactly one
\* callback has run and the tag is green.
C3_OneExpiryAfterLastRed ==
    \A t \in Trackers :
       (~cancelled /\ reds[t] > 0) =>
          LET tag == ApplyColors(trackerColors, colorQueue)[t] IN
          /\ fires[t] <= 1
          /\ sinceRed[t] < COLOR_TIMEOUT_MS => (fires[t] = 0 /\ tag = "red")
          /\ sinceRed[t] > COLOR_TIMEOUT_MS => (fires[t] = 1 /\ tag = "green")
\* two 'red' events in a row, then silence past the timeout: one expiry
C3_CoalescedExpiry ==
    \E t \in Trackers :
       /\ ~cancelled
       /\ reds[t] = 2
       /\ sinceRed[t] > COLOR_TIMEOUT_MS
       /\ fires[t] = 1
       /\ trackerColors[t] = "green"

\* C9 -- The loop never gives up: the status is never 'error', the loop
\* ends only after the stop signal, every connect exception and every
\* loss of the connection (without the stop signal) sets the status to
\* 'reconnecting' and starts a sleep of reconnectDelay, and every sleep is
\* followed by another connection attempt unless the stop signal comes.
C9_NeverGivesUp ==
    /\ [](status # "error")
    /\ [](pc = "done" => cancelled)
    /\ [][((ConnectFail \/ ConnLost) /\ ~cancelled)
            => (status' = "reconnecting" /\ pc' = "sleeping"
                /\ sleepFor' = reconnectDelay)]_vars
    /\ [](pc = "sleeping" => <>(pc = "connecting" \/ cancelled))
\* the connection was lost, two attempts failed, and the loop tries again
C9_TriesAgain ==
    /\ pc = "connecting"
    /\ status = "connecting"
    /\ conn = "closed"
    /\ sleeps >= 2
    /\ ~cancelled

\* d is the length of the k-th sleep in a row, in units of 1/256 ms:
\* 1000 * 1.5^(k-1) ms, or the cap once that exceeds it
KthSleep(k, d) ==
    IF INITIAL_DELAY_MS * 3 ^ (k - 1) >= MAX_DELAY_MS * 2 ^ (k - 1)
      THEN d = MAX_DELAY
      ELSE d * 2 ^ (k - 1) = INITIAL_DELAY * 3 ^ (k - 1)

\* C10 -- Back-off schedule: the k-th sleep in a row lasts
\* min(1000 * 1.5^(k-1), 30000) ms, reconnectDelay stays within
\* [1000, 30000] ms, and reconnectDelay only ever decreases when a
\* connection attempt succeeds.
C10_BackoffSchedule ==
    /\ [](INITIAL_DELAY <= reconnectDelay /\ reconnectDelay <= MAX_DELAY)
    /\ [](pc = "sleeping" => KthSleep(sleeps, sleepFor))
    /\ [][reconnectDelay' < reconnectDelay
            => (pc = "connecting" /\ status' = "connected")]_vars
\* a sleep at the cap
C10_SleepAtCap ==
    /\ pc = "sleeping"
    /\ sleepFor = MAX_DELAY
    /\ reconnectDelay = MAX_DELAY
    /\ sleeps > 2

\* C5 -- Registry idempotence: observing a camera id twice gives the
\* registry that observing it once gives, observing a known id gives the
\* registry back unchanged, and a render that runs only observations of
\* known ids changes neither cameraIds nor the persisted list.
C5_ObserveIdempotent ==
    /\ [](\A c \in Cameras :
            LET once == ObserveCamera(cameraIds, c) IN
            /\ ObserveCamera(once, c) = once
            /\ Includes(cameraIds, c) => once = cameraIds)
    /\ [][(Render /\ camQueue # <<>>
             /\ \A i \in 1 .. Len(camQueue) : Includes(cameraIds, camQueue[i]))
            => (cameraIds' = cameraIds /\ ssCameras' = ssCameras)]_vars
\* both cameras are registered and persisted, and a known one was seen again
C5_KnownCameraSeenAgain ==
    /\ lastObserve = "known"
    /\ Len(cameraIds) = Cardinality(Cameras)
    /\ LoadCameras(ssCameras, <<>>) = cameraIds

\* C8 -- Unknown camera: once a camera that the registry did not hold has
\* sent frames 1 .. MaxFrames, every render has committed and every image
\* has loaded, its canvas has been drawn MaxFrames times, once per frame.
C8_EveryFrameDrawn ==
    \A c \in Cameras :
       ( /\ delivered[c] = MaxFrames
         /\ camQueue = <<>>
         /\ \A image \in decoding : image.camera_id # c )
       => paints[c] = MaxFrames

\* C4 (as stated) -- Alert decay: after a RED signal the alert level is
\* red until ALERT_TIMEOUT_MS after the most recent RED signal, whatever
\* arrives in between.
C4_RedForFullWindow ==
    (sawRed /\ sinceAlert < ALERT_TIMEOUT_MS) => alertColor = "red"

\* C4 (amended) -- Alert decay: while the view is mounted and no signal
\* other than RED has arrived since the most recent RED signal, the alert
\* level is red, with one timer pending that expires ALERT_TIMEOUT_MS after
\* that signal, and it is green with no timer pending once that time has
\* passed; a signal other than RED makes the level green at once.
C4_RedUntilExpiryOrRelease ==
    /\ (sawRed /\ ~cancelled /\ ~nonRedSince) =>
          /\ sinceAlert < ALERT_TIMEOUT_MS =>
                /\ alertColor = "red"
                /\ alertTimeoutRef \in Handles
                /\ timers[alertTimeoutRef].kind = "alert"
                /\ timers[alertTimeoutRef].left = ALERT_TIMEOUT_MS - sinceAlert
                /\ \A h \in Handles : timers[h].kind = "alert" => h = alertTimeoutRef
          /\ sinceAlert > ALERT_TIMEOUT_MS =>
                /\ alertColor = "green"
                /\ alertTimeoutRef = NoHandle
    /\ (sawRed /\ nonRedSince) =>
          /\ alertColor = "green"
          /\ \A h \in Handles : timers[h].kind # "alert"
\* two RED signals in a row, then silence: green after the second window
C4_ExpiredAfterRestart ==
    /\ sawRed /\ ~cancelled /\ ~nonRedSince
    /\ alertReds = 2
    /\ sinceAlert > ALERT_TIMEOUT_MS
    /\ alertColor = "green"

C11_ResetOnConnect ==
    /\ [][(ConnectOk /\ ~cancelled) => reconnectDelay' = INITIAL_DELAY]_vars
    /\ [][(ConnLost /\ ~cancelled) =>
             (pc' = "sleeping" /\ sleepFor' = INITIAL_DELAY)]_vars
\* connected after a sleep of the full 30 s: the delay is back at 1 s
C11_ConnectedAfterCap ==
    /\ status = "connected"
    /\ conn = "open"
    /\ sleepFor = MAX_DELAY
    /\ reconnectDelay = INITIAL_DELAY

C13_StopClosesConnection == [](cancelled => <>(conn # "open"))

\* C14 -- Stop signal cancels all pending decay/revert timers: once
\* `cancelled` is set no tag-expiry timer and no alert-revert timer is
\* pending, so none fires later, and no step taken after the stop signal
\* creates a timer or changes a tag or the alert level.
C14_StopCancelsTimers ==
    /\ [](cancelled => Live(timers) = {})
    /\ [][cancelled => (/\ timers' = timers
                        /\ fires' = fires
                        /\ colorTimeoutsRef' = colorTimeoutsRef
                        /\ alertTimeoutRef' = alertTimeoutRef
                        /\ trackerColors' = trackerColors
                        /\ alertColor' = alertColor)]_vars
\* the dashboard was unmounted while a tag was red: its timer is gone and
\* the tag stays as it was
C14_StoppedWhileRed ==
    /\ cancelled
    /\ \E t \in Trackers : trackerColors[t] = "red" /\ sinceRed[t] < COLOR_TIMEOUT_MS
    /\ Live(timers) = {}

\* C15 -- A malformed message is discarded in isolation: while the
\* connection is open and the page is mounted, the consumer of every topic
\* of the page still processes the messages delivered to it, whatever
\* messages arrived before.
C15_ConsumersSurvive ==
    (conn = "open" /\ ~cancelled) => \A topic \in Topics(page) : Listening(topic)

\* the ledger and the camera list after the queued events, storage apart
RECURSIVE UpsertAll(_, _)
UpsertAll(list, queue) ==
    IF queue = <<>> THEN list
    ELSE LET e == Head(queue).entry
             others == SelectSeq(list, LAMBDA x : x.id # e.id)
         IN  UpsertAll(IF Head(queue).kind = "upsert"
                         THEN SubSeq(<<e>> \o others, 1,
                                     Min(MAX_MATCHES, Len(others) + 1))
                         ELSE <<>>,
                       Tail(queue))
RECURSIVE ObserveAll(_, _)
ObserveAll(list, queue) ==
    IF queue = <<>> THEN list
    ELSE ObserveAll(IF \E i \in 1 .. Len(list) : list[i] = Head(queue)
                      THEN list ELSE Append(list, Head(queue)),
                    Tail(queue))
\* C16 -- Session-storage write failure skipped silently: when setItem
\* throws during a ledger upsert or a camera observe, the in-memory ledger
\* and camera list still take their new values, the stored items stay as
\* they were, no consumer ends and the connection status does not change;
\* every later event is processed in the same way.
C16_WriteFailureSkipped ==
    /\ [][(Render /\ ssFull) =>
            /\ cameraIds' = ObserveAll(cameraIds, camQueue)
            /\ recentMatches' = UpsertAll(recentMatches, matchQueue)
            /\ ssMatches' = ssMatches
            /\ ssCameras' = ssCameras
            /\ dead' = dead
            /\ status' = status]_vars
    /\ []((Consuming /\ ssFull) => \A topic \in Topics(page) : Listening(topic))
\* both stores took values in memory that storage never accepted
C16_MemoryAheadOfStorage ==
    /\ ssFull
    /\ Len(recentMatches) >= 2
    /\ ssMatches = NoItem
    /\ Len(cameraIds) >= 2
    /\ ssCameras = NoItem

\* C17 -- Hold-last-frame: an image that fails to decode changes neither
\* the canvas of its camera nor the expanded canvas, ends no consumer and
\* changes no status; and a frame that decodes afterwards is drawn on the
\* camera's canvas with its boxes, whatever failed before it.
C17_HoldLastFrame ==
    /\ [][\A image \in decoding :
             ImageError(image) =>
                /\ surface' = surface
                /\ expSurface' = expSurface
                /\ dead' = dead
                /\ status' = status]_vars
    /\ [][\A image \in decoding :
             (ImageLoad(image) /\ image.kind = "frame" /\ image.el = "live") =>
                surface'[image.camera_id] =
                   Raster(image.camera_id, image.frame_id, image.faces)]_vars
\* the newest frame did not decode and the canvas still shows the one before
C17_PreviousRasterHeld ==
    /\ lastFrameRef[Watched].image = "corrupt"
    /\ decoding = {}
    /\ surface[Watched].frame_id > 0
    /\ surface[Watched].frame_id = lastFrameRef[Watched].frame_id - 1

\* C18 -- Frames for the same camera are drawn in arrival order: the canvas
\* of a camera shows the latest frame that was ever drawn on it, never an
\* earlier one.
C18_ArrivalOrder == \A c \in Cameras : surface[c].frame_id = newest[c]

\* C19 -- Frame-identical mirroring: when the onload of a frame of the
\* expanded camera has run, the expanded canvas holds what the camera's own
\* canvas holds for that frame: the raster and every box, marker and label.
C19_MirrorIdentical ==
    [][\A image \in decoding :
         (ImageLoad(image) /\ image.kind = "frame"
                           /\ expandedCamera = image.camera_id) =>
            expSurface' = Raster(image.camera_id, image.frame_id, image.faces)]_vars

\* C20 -- While a camera is expanded every decodable frame delivered for it
\* reaches the expanded canvas: once no image is decoding any more, the
\* expanded canvas shows the last such frame.
C20_FocusedViewUpdates ==
    (expandedCamera # NoCamera /\ seenFocused > 0 /\ decoding = {}) =>
       (expSurface.camera_id = expandedCamera /\ expSurface.frame_id = seenFocused)

\* the live expiry timers that were started for a tracker id
TimersOf(t) == {h \in Live(timers) : timers[h].kind = "color" /\ timers[h].tracker_id = t}
\* C23 -- At most one live expiry timer per tracker id: in every reachable
\* state a tracker id has no live timer and no entry in colorTimeoutsRef, or
\* exactly one live timer whose handle is the entry of colorTimeoutsRef.
C23_OneTimerPerTracker ==
    \A t \in Trackers :
       /\ Cardinality(TimersOf(t)) <= 1
       /\ TimersOf(t) = IF colorTimeoutsRef[t] = NoHandle
                          THEN {} ELSE {colorTimeoutsRef[t]}
\* a second 'red' event replaced the timer of the first while another
\* tracker has a timer of its own
C23_TimerReplaced ==
    \E t, u \in Trackers :
       /\ t # u
       /\ reds[t] = 2
       /\ Cardinality(TimersOf(t)) = 1
       /\ timers[colorTimeoutsRef[t]].left = COLOR_TIMEOUT_MS
       /\ sinceRed[t] = 0
       /\ Cardinality(TimersOf(u)) = 1

\* C22 -- Setting a non-alert tag cancels the pending expiry timer: while
\* the last frames.color event handled for a tracker id carried a colour
\* other than 'red' (reds is 0), no expiry timer of that id is pending.
C22_NonRedCancelsTimer == \A t \in Trackers : reds[t] = 0 => TimersOf(t) = {}

\* C24 -- A frames.alert signal whose colour is not RED in any letter case,
\* a message with no colour included, sets the alert level to 'green' in
\* the step that handles it and leaves no revert timer pending.
C24_NonRedClearsAtOnce ==
    [][\A code \in AlertCodes \ {"RED", "red"} :
         AlertEvent(code) =>
            /\ alertColor' = "green"
            /\ alertTimeoutRef' = NoHandle
            /\ \A h \in Handles : timers'[h].kind # "alert"]_vars
\* a signal without RED arrived inside the window of a RED signal
C24_ClearedInsideWindow ==
    /\ ~cancelled
    /\ sawRed /\ nonRedSince
    /\ sinceAlert > 0
    /\ sinceAlert < ALERT_TIMEOUT_MS
    /\ alertColor = "green"
    /\ Live(timers) = {}

\* C25 -- The camera registry is append-only: in every step, disconnects,
\* reconnects and page reloads included, the previous cameraIds list is a
\* prefix of the next one, and a step that lengthens the list leaves the
\* new list in sessionStorage.
C25_AppendOnly ==
    /\ [][/\ Len(cameraIds) <= Len(cameraIds')
          /\ SubSeq(cameraIds', 1, Len(cameraIds)) = cameraIds]_vars
    /\ [][cameraIds' # cameraIds =>
            /\ ssCameras'.has
            /\ JSONParseCameras(ssCameras'.raw) = cameraIds']_vars
\* the connection is lost after both cameras were seen, "B" first: the
\* registry still holds them in that order
C25_KeptThroughDisconnect ==
    /\ pc = "sleeping"
    /\ conn = "closed"
    /\ cameraIds = <<"B", "A">>
    /\ delivered["A"] > 0 /\ delivered["B"] > 0

\* C26 -- Clear: once the Clear button has acted and React has rendered, the
\* ledger is empty and sessionStorage holds no ledger item.
C26_ClearRemovesStored ==
    (lastOp.kind = "clear" /\ matchQueue = <<>>) => ssMatches = NoItem

\* the entries of a ledger, as a set
EntriesOf(list) == {list[i] : i \in 1 .. Len(list)}
\* the person ids of a ledger
IdsOf(list) == {list[i].id : i \in 1 .. Len(list)}
\* what an upsert of entry e into the full ledger prev may remove
EvictsByPosition(prev, e, next) ==
    Len(prev) = MAX_MATCHES =>
        IF e.id \in IdsOf(prev)
          THEN /\ IdsOf(next) = IdsOf(prev)
               /\ Len(next) = MAX_MATCHES
               /\ EntriesOf(prev) \ EntriesOf(next) \subseteq {prev[FindIndex(prev, e.id)]}
          ELSE /\ EntriesOf(prev) \ EntriesOf(next) = {prev[MAX_MATCHES]}
               /\ IdsOf(next) = (IdsOf(prev) \ {prev[MAX_MATCHES].id}) \cup {e.id}
               /\ Len(next) = MAX_MATCHES

\* C27 -- Eviction by position: an upsert of a person id that a full ledger
\* does not hold removes exactly the entry that stood last and no other; an
\* upsert of an id that the full ledger holds removes no person.  This holds
\* of the updater on every reachable ledger and of every render that runs
\* one queued upsert.
C27_EvictsLastOnly ==
    /\ [](\A m \in MatchMessages :
            LET e == Entry(m, Thumbnail(m.face_crop)) IN
            EvictsByPosition(recentMatches, e, Upsert(recentMatches, e)))
    /\ [][(Render /\ Len(matchQueue) = 1 /\ matchQueue[1].kind = "upsert")
            => EvictsByPosition(recentMatches, matchQueue[1].entry, recentMatches')]_vars
\* the last event put a new person into a full ledger, which is still full
C27_EvictedFromFull ==
    /\ lastOp.kind = "evict"
    /\ Len(recentMatches) = MAX_MATCHES
    /\ Cardinality(IdsOf(recentMatches)) = MAX_MATCHES

\* C21 -- Tag read-after-write: every onload that draws the box of a face
\* reads, as the tag of its tracker, the value that the last processed
\* colour event (or expiry) set for that tracker.
C21_ReadsLatestTag ==
    [][\A image \in decoding :
          (ImageLoad(image) /\ image.kind = "frame" /\ image.faces > 0)
             => tagRead' = ApplyColors(trackerColors, colorQueue)[OneTracker]]_vars

\* C28 -- Delivery order: the updaters of the match messages are queued in
\* the order in which the messages were delivered.
C28_AppliedInDeliveryOrder ==
    \A i, j \in 1 .. Len(applied) : i < j => applied[i] < applied[j]

\* C29 -- Object URLs: the only object URLs that exist are those of the
\* thumbnails still decoding, and every onload and onerror of a thumbnail
\* revokes its URL and resolves the promise, so that the consumer queues
\* its updater, with image '' when the crop did not decode or no 2D
\* context was given.
C29_UrlsRevoked ==
    /\ [](blobURLs = {r.seq : r \in compressing})
    /\ [][\A r \in compressing :
            ((\E ctx \in BOOLEAN : CompressLoad(r, ctx)) \/ CompressError(r))
               => /\ r.seq \notin blobURLs'
                  /\ applied' = Append(applied, r.seq)
                  /\ ~cancelled =>
                        /\ matchQueue' # <<>>
                        /\ matchQueue'[Len(matchQueue')].entry.id = r.msg.person_id
                        /\ r.msg.face_crop = "corrupt"
                              => matchQueue'[Len(matchQueue')].entry.image = ""]_vars
\* a crop that did not decode has become a ledger entry without image, a
\* later thumbnail is still decoding, and its URL is the only one left
C29_FailedDecodeReleased ==
    /\ \E i \in 1 .. Len(recentMatches) : recentMatches[i].image = ""
    /\ Len(applied) >= 1
    /\ Cardinality(compressing) = 1
    /\ blobURLs = {taken}

\* C30 -- No fatal error in the second component: while it is mounted,
\* setupNats has never come to its end with status 'error'; after a connect
\* failure or a stream error it is connecting or consuming again.
C30_NoTerminalError ==
    (legacy.status = "error" /\ ~legacy.unmounted) => legacy.pc # "done"

\* the revert timers in the browser's timer table
AlertTimers == {h \in Live(timers) : timers[h].kind = "alert"}

\* C36 -- Traveller view, before the stop signal: the alert level is 'red'
\* exactly when alertTimeoutRef holds a handle, that handle is the one
\* revert timer pending, and without a handle no revert timer is pending.
C36_RedIffTimerPending ==
    ~cancelled =>
       /\ (alertColor = "red") <=> (alertTimeoutRef # NoHandle)
       /\ Cardinality(AlertTimers) <= 1
       /\ AlertTimers = IF alertTimeoutRef = NoHandle THEN {} ELSE {alertTimeoutRef}
\* a second RED signal replaced the timer of the first: the level is red
\* and the one timer pending has run for part of its time
C36_RedWithOneTimer ==
    /\ ~cancelled
    /\ alertReds = 2
    /\ alertColor = "red"
    /\ AlertTimers = {alertTimeoutRef}
    /\ timers[alertTimeoutRef].left < ALERT_TIMEOUT_MS

\* C37 -- Dashboard, before the stop signal: a tracker whose tag (the state
\* the next render commits) is 'red' has one expiry timer pending, which
\* has COLOR_TIMEOUT_MS less the time since the last 'red' event left to
\* run, so the tag is never red later than COLOR_TIMEOUT_MS after that
\* event; and the callback of that timer sets the tag to 'green'.  This
\* holds while the connection is open, closed or being made again.
C37_RedHasPendingTimer ==
    /\ [](\A t \in Trackers :
            (~cancelled /\ ApplyColors(trackerColors, colorQueue)[t] = "red") =>
               /\ TimersOf(t) = {colorTimeoutsRef[t]}
               /\ timers[colorTimeoutsRef[t]].left = COLOR_TIMEOUT_MS - sinceRed[t]
               /\ sinceRed[t] <= COLOR_TIMEOUT_MS)
    /\ [][\A h \in Handles :
            ColorTimerFire(h) =>
               ApplyColors(trackerColors', colorQueue')[timers[h].tracker_id] = "green"]_vars
\* the connection is lost and the loop sleeps while a tag is red and its
\* timer has run for part of its time
C37_RedWhileDisconnected ==
    \E t \in Trackers :
       /\ ~cancelled
       /\ pc = "sleeping"
       /\ ApplyColors(trackerColors, colorQueue)[t] = "red"
       /\ sinceRed[t] > 0
       /\ TimersOf(t) # {}

\* C35 -- The persisted ledger tracks the ledger in memory: whenever no
\* update of recentMatches is pending (and every write has succeeded), the
\* item stored under ecorridor_recent_matches parses to the ledger in
\* memory, an absent item standing for the empty ledger.
C35_StoredEqualsLedger ==
    matchQueue = <<>> => LoadMatches(ssMatches, <<>>) = recentMatches

\* C38 -- After the stop signal no store changes: no step taken while
\* `cancelled` is set changes the ledger, its item in sessionStorage, the
\* tags, the camera registry or its item in sessionStorage.
C38_NoStoreChangeAfterStop ==
    [][cancelled => /\ recentMatches' = recentMatches
                    /\ ssMatches' = ssMatches
                    /\ trackerColors' = trackerColors
                    /\ cameraIds' = cameraIds
                    /\ ssCameras' = ssCameras]_vars

\* the frames.matches consumers that will take another message
LiveConsumers == {r \in compressing : r.live}

\* C39 -- One connection, one live consumer: the loop attempts a connection
\* or sleeps only while no connection is open; a consumer that will take
\* another message belongs to the open connection and there is at most one
\* per topic; when a connection opens no consumer of an earlier connection
\* is live, and a message is taken only on the open connection.
C39_OneConnectionOneConsumer ==
    /\ [](pc \in {"connecting", "sleeping"} => conn # "open")
    /\ [](/\ Cardinality(LiveConsumers) <= 1
          /\ LiveConsumers # {} => conn = "open")
    /\ [][(conn # "open" /\ conn' = "open") => LiveConsumers' = {}]_vars
    /\ [][taken' # taken => (conn = "open" /\ LiveConsumers = {})]_vars
\* a second connection is open and its consumer is busy with a message
\* while a consumer of the first connection is still finishing its own
C39_OldConsumerFinishing ==
    /\ conn = "open"
    /\ ~cancelled
    /\ Cardinality(LiveConsumers) = 1
    /\ Cardinality(compressing \ LiveConsumers) = 1

\* C33 -- The snapshot of a camera is its most recent frame in every view
\* mode: once a decodable frame has been delivered for the camera that is
\* expanded, lastFrameRef holds that frame or a later one of the camera.
C33_SnapshotIsLatestFrame ==
    (expandedCamera # NoCamera /\ seenFocused > 0) =>
       /\ lastFrameRef[expandedCamera] # NoFrame
       /\ lastFrameRef[expandedCamera].frame_id >= seenFocused

\* C31 -- Canvas size: after every onload that drew a frame, the width and
\* the height of the canvas are the width and the height of the image.
C31_CanvasHasRasterSize ==
    lastRaster # NoRaster => canvasSize = lastRaster

C34_EitherOrderSameStores ==
    /\ [](\A m \in ThumbMatches, code \in ColorCodes :
            ( /\ Listening("frames.color") /\ Listening("frames.matches")
              /\ Len(colorQueue) < MaxPending /\ Len(matchQueue) < MaxPending ) =>
               LET colorFirst == MatchStep(ColorStep(Here, m.tracker_id, code), m)
                   matchFirst == ColorStep(MatchStep(Here, m), m.tracker_id, code)
               IN  /\ colorFirst = matchFirst
                   /\ Outcome(colorFirst) = Outcome(matchFirst))
    /\ [][\A code \in ColorCodes :
            ColorEvent(OneTracker, code) => Here' = ColorStep(Here, OneTracker, code)]_vars
    /\ [][\A m \in ThumbMatches : MatchEvent(m) => Here' = MatchStep(Here, m)]_vars
\* a 'red' event and a match of the same tracker are both waiting for the
\* next render, and the timer of the tracker is pending
C34_BothQueued ==
    /\ colorQueue # <<>>
    /\ matchQueue # <<>>
    /\ colorQueue[1].tracker_id = matchQueue[1].entry.tracker_id
    /\ colorQueue[1].color = "red"
    /\ colorTimeoutsRef[colorQueue[1].tracker_id] \in Live(timers)
============================================================================
